---- MODULE Spec2Model ----
(***************************************************************************)
(* Model of run_daily_sales_to_gsheet.py: the subprocess runner and its    *)
(* object extraction, the payload normalizers, the row resolver, the sheet *)
(* writers and the daily driver.                                           *)
(*                                                                         *)
(* Text (a child's stdout, a cell of column A, a string field) is a        *)
(* sequence of tokens; each token is the literal piece of text it stands   *)
(* for, so the concatenation of a sequence is the real text.               *)
(***************************************************************************)
EXTENDS Integers, Sequences, FiniteSets, TLC

VARIABLES
    text,       \* _extract_last_object: the stdout text given
    obj,        \* _extract_last_object: its outcome
    proc,       \* run_script: the finished child (returncode, stdout, stderr)
    ran,        \* run_script: its outcome
    arg,        \* _as_int: the value given
    coerced,    \* _as_int: its outcome
    payload,    \* normalizers: the payload given
    metrics,    \* normalizers: which one ran and its outcome
    ws,         \* row resolver: the worksheet (a sequence of rows)
    ws0,        \* row resolver: the worksheet before the first call
    calls,      \* row resolver: the calls made so far, latest last
    writers,    \* row resolver: the driver instances resolving a row on one worksheet
    pc,         \* main: the statement it is at
    cred,       \* main: whether GOOGLE_SA_JSON names an existing file
    kids,       \* main: the children launched so far, in order, each as it exited
    got,        \* main: the metrics normalized so far
    book,       \* main: the two worksheets of the spreadsheet
    book0,      \* main: the two worksheets before the run
    rowOf,      \* main: the row resolved for each worksheet (0: none yet)
    err,        \* main: the exception that ended the run ("" for none)
    other,      \* main: a second instance of the driver running on the same spreadsheet
    log         \* main: the spreadsheet calls made so far, in order

exVars == <<text, obj>>
rsVars == <<proc, ran>>
coVars == <<arg, coerced>>
nmVars == <<payload, metrics>>
rwVars == <<ws, ws0, calls, writers>>
drVars == <<pc, cred, kids, got, book, book0, rowOf, err, other, log>>
vars == <<text, obj, proc, ran, arg, coerced, payload, metrics, ws, ws0, calls, writers,
          pc, cred, kids, got, book, book0, rowOf, err, other, log>>

(***************************************************************************)
(* Bounds of the model.                                                    *)
(***************************************************************************)
MaxLen == 6         \* tokens in a stdout text of the extraction specification
MaxStrLen == 4      \* characters in a string given to _as_int
MaxInt == 2         \* magnitude of the integers given to _as_int
MaxRows == 2        \* rows of an initial worksheet
MaxCalls == 3       \* find_or_create_row_by_date calls in a run

(***************************************************************************)
(* Python values, tagged by type.                                          *)
(***************************************************************************)
\* every value carries the same fields: i (a number), s (a string), d (a dict)
PyVal(k, n, str, dict) == [kind |-> k, i |-> n, s |-> str, d |-> dict]
NoneV == PyVal("none", 0, << >>, << >>)
IntV(n) == PyVal("int", n, << >>, << >>)
\* a float with one fraction digit, held in tenths: FloatV(15) is 1.5, FloatV(-25) is -2.5
FloatV(tenths) == PyVal("float", tenths, << >>, << >>)
BoolV(b) == PyVal("bool", IF b THEN 1 ELSE 0, << >>, << >>)
StrV(str) == PyVal("str", 0, str, << >>)
DictV(dict) == PyVal("dict", 0, << >>, dict)
\* a tuple (what literal_eval gives for  {..},{..} ); the normalizers never read its items
TupleV == PyVal("tuple", 0, << >>, << >>)

EmptyDict == << >>
DictPut(d, k, v) == [y \in (DOMAIN d) \cup {k} |-> IF y = k THEN v ELSE d[y]]
\* dict.get(k) with default None
DictGet(d, k) == IF k \in DOMAIN d THEN d[k] ELSE NoneV

(***************************************************************************)
(* Tokens of a child's stdout.                                             *)
(***************************************************************************)
LB == "{"
RB == "}"
CM == ","
SP == " "
NL == "\n"
LOG == "INFO"

\* key: scalar   members, written as one token
ScalarMembers ==
    { [tok |-> "\"sales\":5",          key |-> "sales",     val |-> IntV(5),  json |-> TRUE,  py |-> TRUE],
      [tok |-> "\"sales\":0",          key |-> "sales",     val |-> IntV(0),  json |-> TRUE,  py |-> TRUE],
      [tok |-> "\"sales\":-3",         key |-> "sales",     val |-> IntV(-3), json |-> TRUE,  py |-> TRUE],
      [tok |-> "\"orders\":1",         key |-> "orders",    val |-> IntV(1),  json |-> TRUE,  py |-> TRUE],
      [tok |-> "'orders':1",           key |-> "orders",    val |-> IntV(1),  json |-> FALSE, py |-> TRUE],
      [tok |-> "\"orders\":null",      key |-> "orders",    val |-> NoneV,    json |-> TRUE,  py |-> FALSE],
      [tok |-> "\"orders\":None",      key |-> "orders",    val |-> NoneV,    json |-> FALSE, py |-> TRUE],
      [tok |-> "\"sales\":\"6,1\"",    key |-> "sales",     val |-> StrV(<<"6", ",", "1">>), json |-> TRUE, py |-> TRUE],
      [tok |-> "\"spend\":\"6,1\"",    key |-> "spend",     val |-> StrV(<<"6", ",", "1">>), json |-> TRUE, py |-> TRUE],
      [tok |-> "\"spend\":0",          key |-> "spend",     val |-> IntV(0),  json |-> TRUE,  py |-> TRUE],
      [tok |-> "\"purchases\":\"3\"",  key |-> "purchases", val |-> StrV(<<"3">>), json |-> TRUE, py |-> TRUE],
      [tok |-> "\"mapped\":null",      key |-> "mapped",    val |-> NoneV,    json |-> TRUE,  py |-> FALSE] }

\* key:   tokens, to be followed by an object
KeyOpens ==
    { [tok |-> "\"mapped\":",     key |-> "mapped",     json |-> TRUE,  py |-> TRUE],
      [tok |-> "\"burdenzero\":", key |-> "burdenzero", json |-> TRUE,  py |-> TRUE],
      [tok |-> "\"brainology\":", key |-> "brainology", json |-> TRUE,  py |-> TRUE],
      [tok |-> "'mapped':",       key |-> "mapped",     json |-> FALSE, py |-> TRUE] }

ScalarToks == {m.tok : m \in ScalarMembers}
KeyToks == {m.tok : m \in KeyOpens}
ScalarOf(t) == CHOOSE m \in ScalarMembers : m.tok = t
KeyOf(t) == CHOOSE m \in KeyOpens : m.tok = t
Tokens == {LB, RB, CM, SP, NL, LOG} \cup ScalarToks \cup KeyToks

\* whether the parser `mode` ("json": json.loads, "py": ast.literal_eval) reads the token
Reads(m, mode) == IF mode = "json" THEN m.json ELSE m.py

(***************************************************************************)
(* json.loads and ast.literal_eval on a chunk that starts with "{".        *)
(* Both read  { member (, member)* }  with spaces between tokens; only     *)
(* literal_eval reads single-quoted keys, None and a trailing comma; only  *)
(* json.loads reads null.  A brace where a member is expected is a Python  *)
(* set of a dict (TypeError) and a JSON syntax error.                      *)
(***************************************************************************)
ParseFail == [ok |-> FALSE, val |-> EmptyDict, next |-> 0]

RECURSIVE SkipSp(_, _)
SkipSp(toks, i) ==
    IF i <= Len(toks) /\ toks[i] = SP THEN SkipSp(toks, i + 1) ELSE i

\* st: "first" after "{", "member" after a member, "comma" after a ","
RECURSIVE ParseMembers(_, _, _, _, _)
ParseMembers(toks, i, mode, acc, st) ==
    IF i > Len(toks) THEN ParseFail
    ELSE LET t == toks[i] IN
      IF t = SP THEN ParseMembers(toks, i + 1, mode, acc, st)
      ELSE IF t = RB THEN
        IF st \in {"first", "member"} \/ (st = "comma" /\ mode = "py")
        THEN [ok |-> TRUE, val |-> acc, next |-> i + 1]
        ELSE ParseFail
      ELSE IF st = "member" THEN
        IF t = CM THEN ParseMembers(toks, i + 1, mode, acc, "comma") ELSE ParseFail
      ELSE IF t \in ScalarToks /\ Reads(ScalarOf(t), mode) THEN
        ParseMembers(toks, i + 1, mode,
                     DictPut(acc, ScalarOf(t).key, ScalarOf(t).val), "member")
      ELSE IF t \in KeyToks /\ Reads(KeyOf(t), mode) THEN
        LET j == SkipSp(toks, i + 1) IN
        IF j <= Len(toks) /\ toks[j] = LB THEN
          LET r == ParseMembers(toks, j + 1, mode, EmptyDict, "first") IN
          IF r.ok
          THEN ParseMembers(toks, r.next, mode,
                            DictPut(acc, KeyOf(t).key, DictV(r.val)), "member")
          ELSE ParseFail
        ELSE ParseFail
      ELSE ParseFail

\* an outcome of a parser: a dict (val), or for literal_eval a tuple of dicts (items)
Parsed(k, dict, its) == [ok |-> TRUE, kind |-> k, val |-> dict, items |-> its]
NotParsed == [ok |-> FALSE, kind |-> "none", val |-> EmptyDict, items |-> << >>]

\* json.loads(chunk): one object and nothing after it
json_loads(chunk) ==
    IF Len(chunk) = 0 \/ chunk[1] # LB THEN NotParsed
    ELSE LET r == ParseMembers(chunk, 2, "json", EmptyDict, "first") IN
         IF r.ok /\ SkipSp(chunk, r.next) = Len(chunk) + 1
         THEN Parsed("dict", r.val, << >>)
         ELSE NotParsed

\* the Python expression  {..} (, {..})*  from token i: the dicts read, << >> on an error
RECURSIVE ParseObjects(_, _, _)
ParseObjects(toks, i, its) ==
    LET r == ParseMembers(toks, i + 1, "py", EmptyDict, "first") IN
    IF ~r.ok THEN << >>
    ELSE LET j == SkipSp(toks, r.next) IN
         IF j = Len(toks) + 1 THEN Append(its, r.val)
         ELSE IF toks[j] = CM /\ SkipSp(toks, j + 1) <= Len(toks)
                 /\ toks[SkipSp(toks, j + 1)] = LB
         THEN ParseObjects(toks, SkipSp(toks, j + 1), Append(its, r.val))
         ELSE << >>

\* ast.literal_eval(chunk): a dict, or a tuple when dicts are separated by commas
literal_eval(chunk) ==
    IF Len(chunk) = 0 \/ chunk[1] # LB THEN NotParsed
    ELSE LET its == ParseObjects(chunk, 1, << >>) IN
         IF its = << >> THEN NotParsed
         ELSE IF Len(its) = 1 THEN Parsed("dict", its[1], << >>)
         ELSE Parsed("tuple", EmptyDict, its)

(***************************************************************************)
(* _extract_last_object                                                    *)
(***************************************************************************)
\* str.strip(): leading and trailing whitespace removed
RECURSIVE LStrip(_)
LStrip(s) == IF Len(s) > 0 /\ s[1] = SP THEN LStrip(Tail(s)) ELSE s
RECURSIVE RStrip(_)
RStrip(s) == IF Len(s) > 0 /\ s[Len(s)] = SP THEN RStrip(SubSeq(s, 1, Len(s) - 1)) ELSE s
Strip(s) == RStrip(LStrip(s))

\* text.splitlines(): the pieces between line breaks
RECURSIVE SplitLines(_, _, _)
SplitLines(s, i, cur) ==
    IF i > Len(s) THEN (IF cur = << >> THEN << >> ELSE <<cur>>)
    ELSE IF s[i] = NL THEN <<cur>> \o SplitLines(s, i + 1, << >>)
    ELSE SplitLines(s, i + 1, Append(cur, s[i]))

\* [ln.strip() for ln in text.splitlines() if ln.strip()]
RECURSIVE NonBlank(_)
NonBlank(ls) ==
    IF ls = << >> THEN << >>
    ELSE (IF Strip(Head(ls)) = << >> THEN << >> ELSE <<Strip(Head(ls))>>) \o NonBlank(Tail(ls))
StrippedLines(t) == NonBlank(SplitLines(t, 1, << >>))

Has(s, c) == \E i \in 1..Len(s) : s[i] = c
FirstIdx(s, c) == CHOOSE i \in 1..Len(s) : s[i] = c /\ \A j \in 1..(i - 1) : s[j] # c
LastIdx(s, c) == CHOOSE i \in 1..Len(s) : s[i] = c /\ \A j \in (i + 1)..Len(s) : s[j] # c

\* re.search(r"(\{.*\})", ln): the greedy span from the first "{" to the last "}"
GreedyChunk(ln) ==
    IF Has(ln, LB) /\ Has(ln, RB) /\ FirstIdx(ln, LB) < LastIdx(ln, RB)
    THEN [found |-> TRUE, chunk |-> SubSeq(ln, FirstIdx(ln, LB), LastIdx(ln, RB))]
    ELSE [found |-> FALSE, chunk |-> << >>]

\* json.loads, and when it raises ast.literal_eval
ParseEither(chunk) ==
    LET obj_json == json_loads(chunk) IN
    IF obj_json.ok THEN obj_json ELSE literal_eval(chunk)

\* one pass of the loop body over a line: the object returned, if any
TryLine(ln) ==
    LET whole == ParseEither(ln)
        m == GreedyChunk(ln)
    IN  IF ln[1] = LB /\ ln[Len(ln)] = RB /\ whole.ok
        THEN whole
        ELSE IF Has(ln, LB) /\ Has(ln, RB) /\ m.found
        THEN ParseEither(m.chunk)
        ELSE NotParsed

\* an outcome of _extract_last_object that is a RuntimeError
Raised(e) == [ok |-> FALSE, kind |-> "none", val |-> EmptyDict, items |-> << >>,
              line |-> 0, err |-> e]

\* for ln in reversed(lines): the first line, from the end, that yields an object
RECURSIVE ScanReversed(_, _)
ScanReversed(lines, k) ==
    IF k = 0
    THEN Raised("unparseable")
    ELSE LET found == TryLine(lines[k]) IN
         IF found.ok
         THEN [ok |-> TRUE, kind |-> found.kind, val |-> found.val,
               items |-> found.items, line |-> k, err |-> ""]
         ELSE ScanReversed(lines, k - 1)

\* the outcome: the object and the (non-blank) line it was read from, or the error
extract_last_object(t) ==
    LET lines == StrippedLines(t) IN
    IF lines = << >>
    THEN Raised("empty")
    ELSE ScanReversed(lines, Len(lines))

NotRun == Raised("notrun")

\* the tokens SpecExtract draws stdout from
ExtractAlphabet == {LB, RB, NL, SP, LOG, CM, "\"sales\":5", "'orders':1"}
SeqsUpTo(S, n) == UNION {[1..k -> S] : k \in 0..n}

\* the outcomes before the operation has run
RanIdle == [ok |-> FALSE, launches |-> 0, extracted |-> FALSE, msg |-> << >>,
            payload |-> NotRun]
CoercedIdle == [done |-> FALSE, out |-> 0]
MetricsIdle == [fn |-> "none", raised |-> "", res |-> << >>]

ExIdle == text = << >> /\ obj = NotRun
RsIdle == proc = [script |-> "", returncode |-> 0, stdout |-> << >>, stderr |-> << >>]
          /\ ran = RanIdle
CoIdle == arg = NoneV /\ coerced = CoercedIdle
NmIdle == payload = DictV(EmptyDict) /\ metrics = MetricsIdle
\* the driver instances, and an instance that resolves no row
Instances == {"first", "second"}
WriterOff == [pc |-> "off", date |-> << >>, col_a |-> << >>, seen |-> 0, ret |-> 0, row |-> 0]
NoWriters == [i \in Instances |-> WriterOff]
RwIdle == ws = << >> /\ ws0 = << >> /\ calls = << >> /\ writers = NoWriters
NoSheets == [bz |-> << >>, br |-> << >>]
GotNothing == [cafe_bz_payload |-> NoneV, cafe_br_payload |-> NoneV,
               coupang_payload |-> NoneV, naver_payload |-> NoneV, meta_payload |-> NoneV,
               cafe_bz |-> << >>, cafe_br |-> << >>, coupang |-> << >>, naver |-> << >>,
               meta |-> << >>]
\* no second instance: its statement, the children it ran and the metrics it normalized,
\* the column A it read last, and the rows it resolved
OtherOff == [pc |-> "off", kids |-> << >>, got |-> << >>, col_a |-> << >>,
             rowOf |-> [bz |-> 0, br |-> 0]]
DrIdle == /\ pc = "idle" /\ cred = FALSE /\ kids = << >> /\ got = GotNothing
          /\ other = OtherOff
          /\ book = NoSheets /\ book0 = NoSheets /\ rowOf = [bz |-> 0, br |-> 0]
          /\ err = "" /\ log = << >>

InitExtract ==
    /\ text \in SeqsUpTo(ExtractAlphabet, MaxLen)
    /\ obj = NotRun
    /\ RsIdle /\ CoIdle /\ NmIdle /\ RwIdle /\ DrIdle

ExtractLastObject ==
    /\ obj = NotRun
    /\ obj' = extract_last_object(text)
    /\ UNCHANGED <<text, rsVars, coVars, nmVars, rwVars, drVars>>

NextExtract == ExtractLastObject
SpecExtract == InitExtract /\ [][NextExtract]_vars

(***************************************************************************)
(* run_script                                                              *)
(***************************************************************************)
cafe24_path == "connectors/sales/cafe24.py"
coupang_path == "connectors/sales/coupang.py"
naver_path == "connectors/sales/naver.py"
meta_ads_path == "connectors/ads/meta_ads.py"

\* the RuntimeError text of a failed child: the path, then stdout and stderr as captured
\* (the source's text opens with a Korean phrase, written "script failed: " here)
FailureMessage(script, p) ==
    <<"script failed: ", script, "\nSTDOUT:\n">> \o p.stdout \o <<"\nSTDERR:\n">> \o p.stderr

\* run_script once the child p has exited.  launches: the subprocess.run calls made;
\* extracted: whether _extract_last_object was called; payload: what it gave
run_script_always_extracts(script, p) ==
    [ok |-> extract_last_object(p.stdout).ok, launches |-> 1, extracted |-> TRUE,
     msg |-> << >>, payload |-> extract_last_object(p.stdout)]

run_script(script, p) ==
    IF p.returncode # 0
    THEN [ok |-> FALSE, launches |-> 1, extracted |-> FALSE,
          msg |-> FailureMessage(script, p), payload |-> NotRun]
    ELSE [ok |-> extract_last_object(p.stdout).ok, launches |-> 1, extracted |-> TRUE,
          msg |-> << >>, payload |-> extract_last_object(p.stdout)]

\* what the children under SpecRun print and exit with
RunStdouts ==
    { << >>,
      <<LOG, NL>>,
      <<LB, "\"sales\":5", CM, "\"orders\":1", RB>>,
      <<LOG, SP, LOG, NL, LB, "\"sales\":5", CM, "\"orders\":1", RB, NL>>,
      <<LB, "'orders':1", RB>>,
      <<LB, RB, NL, LB, RB, RB>>,
      <<LOG, LB, "\"sales\":0", RB, LOG>>,
      <<LB, RB, CM, LB, RB>>,
      <<LB, "\"mapped\":", LB, "\"burdenzero\":", LB, "\"sales\":5", RB, RB, RB>> }
RunStderrs == { << >>, <<"Traceback", NL>>, <<LOG, SP, LB, RB>> }
ReturnCodes == {0, 1, 2}
Scripts == {cafe24_path, coupang_path, naver_path, meta_ads_path}

InitRun ==
    /\ proc \in [script : Scripts, returncode : ReturnCodes,
                  stdout : RunStdouts, stderr : RunStderrs]
    /\ ran = RanIdle
    /\ ExIdle /\ CoIdle /\ NmIdle /\ RwIdle /\ DrIdle

RunScript ==
    /\ ran = RanIdle
    /\ ran' = run_script(proc.script, proc)
    /\ UNCHANGED <<proc, exVars, coVars, nmVars, rwVars, drVars>>

NextRun == RunScript
SpecRun == InitRun /\ [][NextRun]_vars

(***************************************************************************)
(* _as_int and the built-in int()                                          *)
(***************************************************************************)
Digits == <<"0", "1", "2", "3", "4", "5", "6", "7", "8", "9">>
IsDigit(c) == \E k \in 1..10 : Digits[k] = c
DigitVal(c) == (CHOOSE k \in 1..10 : Digits[k] = c) - 1

\* the value of a run of digits
RECURSIVE DigitsVal(_)
DigitsVal(s) ==
    IF s = << >> THEN 0
    ELSE 10 * DigitsVal(SubSeq(s, 1, Len(s) - 1)) + DigitVal(s[Len(s)])

\* str(n) of an integer
RECURSIVE NatStr(_)
NatStr(n) == IF n < 10 THEN <<Digits[n + 1]>> ELSE Append(NatStr(n \div 10), Digits[(n % 10) + 1])
IntStr(n) == IF n < 0 THEN <<"-">> \o NatStr(0 - n) ELSE NatStr(n)
Abs(n) == IF n < 0 THEN 0 - n ELSE n

\* what int(str) reads once spaces are stripped: an optional "-" and digits
IsIntLiteral(s) ==
    LET body == IF Len(s) > 0 /\ s[1] = "-" THEN Tail(s) ELSE s IN
    /\ Len(body) > 0
    /\ \A k \in 1..Len(body) : IsDigit(body[k])
IntLiteralVal(s) ==
    IF s[1] = "-" THEN 0 - DigitsVal(Tail(s)) ELSE DigitsVal(s)

\* int(float): truncation toward zero (the float is held in tenths)
TruncTenths(t) == IF t >= 0 THEN t \div 10 ELSE 0 - ((0 - t) \div 10)

\* re.sub(r"[^\d\-]", "", s)
RECURSIVE ReSubNonDigit(_)
ReSubNonDigit(s) ==
    IF s = << >> THEN << >>
    ELSE (IF IsDigit(Head(s)) \/ Head(s) = "-" THEN <<Head(s)>> ELSE << >>)
         \o ReSubNonDigit(Tail(s))

\* int(s) with no cleaning of s: a mutation of the cleaning step
as_int_unfiltered(v) ==
    CASE v.kind = "none" -> 0
      [] v.kind \in {"int", "bool"} -> v.i
      [] v.kind = "float" -> TruncTenths(v.i)
      [] v.kind = "str" ->
           IF Strip(v.s) = << >> THEN 0
           ELSE IF IsIntLiteral(Strip(v.s)) THEN IntLiteralVal(Strip(v.s)) ELSE 0

\* -1 instead of 0 when nothing can be read: a mutation of the default
as_int_minus_one(v) ==
    CASE v.kind = "none" -> 0 - 1
      [] v.kind \in {"int", "bool"} -> v.i
      [] v.kind = "float" -> TruncTenths(v.i)
      [] v.kind = "str" ->
           IF IsIntLiteral(ReSubNonDigit(Strip(v.s)))
           THEN IntLiteralVal(ReSubNonDigit(Strip(v.s))) ELSE 0 - 1

\* _as_int(v) for None, a number or a string (str() of a container is not modelled)
as_int(v) ==
    CASE v.kind = "none" -> 0
      [] v.kind \in {"int", "bool"} -> v.i
      [] v.kind = "float" -> TruncTenths(v.i)
      [] v.kind = "str" ->
           IF Strip(v.s) = << >> THEN 0
           ELSE IF ReSubNonDigit(Strip(v.s)) = << >> THEN 0
           ELSE IF IsIntLiteral(ReSubNonDigit(Strip(v.s)))
           THEN IntLiteralVal(ReSubNonDigit(Strip(v.s)))
           ELSE 0      \* int() raised ValueError, caught by except Exception

\* bool(v), as "x or 0" tests it
Truthy(v) ==
    CASE v.kind = "none" -> FALSE
      [] v.kind \in {"int", "bool", "float"} -> v.i # 0
      [] v.kind = "str" -> v.s # << >>
      [] v.kind = "dict" -> DOMAIN v.d # {}
      [] v.kind = "tuple" -> TRUE

\* the built-in int(v): the integer, or the exception it raises
builtin_int(v) ==
    CASE v.kind \in {"int", "bool"} -> [raised |-> "", out |-> v.i]
      [] v.kind = "float" -> [raised |-> "", out |-> TruncTenths(v.i)]
      [] v.kind = "str" ->
           IF IsIntLiteral(Strip(v.s))
           THEN [raised |-> "", out |-> IntLiteralVal(Strip(v.s))]
           ELSE [raised |-> "ValueError", out |-> 0]
      [] OTHER -> [raised |-> "TypeError", out |-> 0]

\* the characters of the strings given to _as_int
CoerceChars == {"0", "1", "-", ",", " ", ".", "a"}
CoerceInputs ==
    {NoneV, BoolV(TRUE), BoolV(FALSE)}
    \cup {IntV(n) : n \in (0 - MaxInt)..MaxInt}
    \cup {FloatV(t) : t \in (0 - (10 * MaxInt + 9))..(10 * MaxInt + 9)}
    \cup {StrV(str) : str \in SeqsUpTo(CoerceChars, MaxStrLen)}

InitCoerce ==
    /\ arg \in CoerceInputs
    /\ coerced = CoercedIdle
    /\ ExIdle /\ RsIdle /\ NmIdle /\ RwIdle /\ DrIdle

AsInt ==
    /\ ~coerced.done
    /\ coerced' = [done |-> TRUE, out |-> as_int(arg)]
    /\ UNCHANGED <<arg, exVars, rsVars, nmVars, rwVars, drVars>>

NextCoerce == AsInt
SpecCoerce == InitCoerce /\ [][NextCoerce]_vars

(***************************************************************************)
(* The payload normalizers                                                 *)
(***************************************************************************)
\* the brands' display names are Korean in the source (lines 243, 245); written
\* here in Latin letters
NATIVE_BURDENZERO == "budamjero"
NATIVE_BRAINOLOGY == "beureinollogi"

ContainerKeys == <<"mapped", "brands", "by_brand", "data">>
SpendKeys == <<"spend", "amount_spent", "ad_spend", "cost", "spend_krw", "cost_krw">>
PurchaseKeys == <<"purchases", "purchase", "purchase_count", "orders", "results", "conversions">>

\* a normalizer's outcome: the exception it raised ("" for none) and the pairs it returned
Returned(f, pairs) == [fn |-> f, raised |-> "", res |-> pairs]
Raises(f, e) == [fn |-> f, raised |-> e, res |-> << >>]

\* payload.get(k, 0) or 0
GetOrZero(d, k) ==
    IF k \in DOMAIN d /\ Truthy(d[k]) THEN d[k] ELSE IntV(0)

\* DailyMetrics(int(d.get("sales", 0) or 0), int(d.get("orders", 0) or 0))
DailyMetrics(d) ==
    LET sa == builtin_int(GetOrZero(d, "sales"))
        od == builtin_int(GetOrZero(d, "orders")) IN
    IF sa.raised # "" THEN [raised |-> sa.raised, pair |-> <<0, 0>>]
    ELSE IF od.raised # "" THEN [raised |-> od.raised, pair |-> <<0, 0>>]
    ELSE [raised |-> "", pair |-> <<sa.out, od.out>>]

metrics_from_simple(p) ==
    IF p.kind # "dict" THEN Raises("simple", "AttributeError")
    ELSE IF DailyMetrics(p.d).raised # "" THEN Raises("simple", DailyMetrics(p.d).raised)
    ELSE Returned("simple", <<DailyMetrics(p.d).pair>>)

\* x.get(k) or {}
GetOrEmpty(d, k) ==
    IF k \in DOMAIN d /\ Truthy(d[k]) THEN d[k] ELSE DictV(EmptyDict)

metrics_from_coupang(p) ==
    IF p.kind # "dict" THEN Raises("coupang", "AttributeError")
    ELSE LET mapped == GetOrEmpty(p.d, "mapped") IN
      IF mapped.kind # "dict" THEN Raises("coupang", "AttributeError")
      ELSE LET bz == GetOrEmpty(mapped.d, "burdenzero")
               br == GetOrEmpty(mapped.d, "brainology") IN
        \* the returned dict is built left to right: bz.get, int, then br.get, int
        IF bz.kind # "dict" THEN Raises("coupang", "AttributeError")
        ELSE IF DailyMetrics(bz.d).raised # "" THEN Raises("coupang", DailyMetrics(bz.d).raised)
        ELSE IF br.kind # "dict" THEN Raises("coupang", "AttributeError")
        ELSE IF DailyMetrics(br.d).raised # "" THEN Raises("coupang", DailyMetrics(br.d).raised)
        ELSE Returned("coupang", <<DailyMetrics(bz.d).pair, DailyMetrics(br.d).pair>>)

\* the first key of keys[from..] that passes: an alias whose value is not None
RECURSIVE pick_first_from(_, _, _)
pick_first_from(d, keys, from) ==
    IF from > Len(keys) THEN NoneV
    ELSE IF keys[from] \in DOMAIN d /\ d[keys[from]].kind # "none" THEN d[keys[from]]
    ELSE pick_first_from(d, keys, from + 1)

\* the first alias that is present, None or not: a mutation of the None test
pick_first_present(d, keys) ==
    IF \E k \in 1..Len(keys) : keys[k] \in DOMAIN d
    THEN d[keys[CHOOSE k \in 1..Len(keys) :
                  keys[k] \in DOMAIN d /\ \A j \in 1..(k - 1) : keys[j] \notin DOMAIN d]]
    ELSE NoneV

pick_first(d, keys) == pick_first_from(d, keys, 1)

parse_brand(d) == <<as_int(pick_first(d, SpendKeys)), as_int(pick_first(d, PurchaseKeys))>>

\* the loop over ("mapped", "brands", "by_brand", "data"): the first whose value is a dict
RECURSIVE MetaRootFrom(_, _)
MetaRootFrom(p, from) ==
    IF from > Len(ContainerKeys) \/ p.kind # "dict" THEN p
    ELSE IF DictGet(p.d, ContainerKeys[from]).kind = "dict"
    THEN DictGet(p.d, ContainerKeys[from])
    ELSE MetaRootFrom(p, from + 1)
MetaRoot(p) == MetaRootFrom(p, 1)

\* root.get(canonical), and when that is None root.get(native)
MetaBrand(root, canonical, native) ==
    IF root.kind # "dict" THEN NoneV
    ELSE IF DictGet(root.d, canonical).kind # "none" THEN DictGet(root.d, canonical)
    ELSE DictGet(root.d, native)

MetaPair(brand) == IF brand.kind = "dict" THEN parse_brand(brand.d) ELSE <<0, 0>>

metrics_from_meta_ads(p) ==
    Returned("meta_ads",
             <<MetaPair(MetaBrand(MetaRoot(p), "burdenzero", NATIVE_BURDENZERO)),
               MetaPair(MetaBrand(MetaRoot(p), "brainology", NATIVE_BRAINOLOGY))>>)

(***************************************************************************)
(* The payloads SpecNorm draws from                                       *)
(***************************************************************************)
Absent == PyVal("absent", 0, << >>, << >>)

\* the dict of the pairs <<key, value>> whose value is not Absent
RECURSIVE MkDict(_)
MkDict(pairs) ==
    IF pairs = << >> THEN EmptyDict
    ELSE IF Head(pairs)[2] = Absent THEN MkDict(Tail(pairs))
    ELSE DictPut(MkDict(Tail(pairs)), Head(pairs)[1], Head(pairs)[2])

Str61 == StrV(<<"6", ",", "1">>)
SimpleFieldVals ==
    {Absent, NoneV, IntV(0), IntV(7), IntV(0 - 2), FloatV(15), BoolV(TRUE), StrV(<< >>),
     StrV(<<"3">>), Str61, StrV(<<"-", "4">>), StrV(<<"a">>)}
SimplePayloads ==
    {DictV(MkDict(<< <<"sales", a>>, <<"orders", b>> >>)) :
        a \in SimpleFieldVals, b \in SimpleFieldVals} \cup {TupleV}

CoupangFieldVals == {Absent, NoneV, IntV(7), Str61}
CoupangBrandVals ==
    {Absent, NoneV, StrV(<<"a">>), IntV(0)}
    \cup {DictV(MkDict(<< <<"sales", a>>, <<"orders", b>> >>)) :
            a \in CoupangFieldVals, b \in CoupangFieldVals}
CoupangPayloads ==
    {DictV(MkDict(<< <<"mapped", m>> >>)) : m \in {NoneV, StrV(<<"a">>), IntV(7)}}
    \cup {DictV(MkDict(<< <<"mapped",
                 DictV(MkDict(<< <<"burdenzero", a>>, <<"brainology", b>> >>))>> >>)) :
            a \in CoupangBrandVals, b \in CoupangBrandVals}

MetaFieldVals == {Absent, NoneV, IntV(7), Str61}
MetaBrandVals ==
    {Absent, NoneV, StrV(<<"a">>)}
    \cup {DictV(MkDict(<< <<"spend", a>>, <<"cost", b>>, <<"purchases", c>> >>)) :
            a \in MetaFieldVals, b \in MetaFieldVals, c \in MetaFieldVals}
OtherBrand == DictV(MkDict(<< <<"amount_spent", IntV(0 - 2)>>, <<"orders", StrV(<<"3">>)>> >>))
MetaContainers ==
    {MkDict(<< <<"burdenzero", a>>, <<NATIVE_BURDENZERO, b>>,
               <<"brainology", c>>, <<NATIVE_BRAINOLOGY, e>> >>) :
        a \in MetaBrandVals, b \in {Absent, NoneV, OtherBrand},
        c \in {Absent, NoneV, OtherBrand}, e \in {Absent, OtherBrand}}
Decoy == DictV(MkDict(<< <<"burdenzero", DictV(MkDict(<< <<"spend", IntV(1)>> >>))>> >>))
MetaPayloads ==
    UNION { { DictV(c),
              DictV(MkDict(<< <<"mapped", DictV(c)>> >>)),
              DictV(MkDict(<< <<"mapped", NoneV>>, <<"brands", DictV(c)>> >>)),
              DictV(MkDict(<< <<"mapped", StrV(<<"a">>)>>, <<"by_brand", DictV(c)>> >>)),
              DictV(MkDict(<< <<"brands", DictV(c)>>, <<"data", Decoy>> >>)),
              DictV(MkDict(<< <<"data", DictV(c)>>, <<"burdenzero", Decoy>> >>)) }
            : c \in MetaContainers }

\* {"mapped": {"burdenzero": {"spend": "12,000", "purchases": "3"}}}
ExampleAdPayload ==
    DictV(MkDict(<< <<"mapped", DictV(MkDict(<< <<"burdenzero",
        DictV(MkDict(<< <<"spend", StrV(<<"1", "2", ",", "0", "0", "0">>)>>,
                        <<"purchases", StrV(<<"3">>)>> >>))>> >>))>> >>))

NormPayloads == SimplePayloads \cup CoupangPayloads \cup MetaPayloads \cup {ExampleAdPayload}

InitNorm ==
    /\ payload \in NormPayloads
    /\ metrics = MetricsIdle
    /\ ExIdle /\ RsIdle /\ CoIdle /\ RwIdle /\ DrIdle

MetricsFromSimple ==
    /\ metrics = MetricsIdle
    /\ metrics' = metrics_from_simple(payload)
    /\ UNCHANGED <<payload, exVars, rsVars, coVars, rwVars, drVars>>

MetricsFromCoupang ==
    /\ metrics = MetricsIdle
    /\ metrics' = metrics_from_coupang(payload)
    /\ UNCHANGED <<payload, exVars, rsVars, coVars, rwVars, drVars>>

MetricsFromMetaAds ==
    /\ metrics = MetricsIdle
    /\ metrics' = metrics_from_meta_ads(payload)
    /\ UNCHANGED <<payload, exVars, rsVars, coVars, rwVars, drVars>>

NextNorm == MetricsFromSimple \/ MetricsFromCoupang \/ MetricsFromMetaAds
SpecNorm == InitNorm /\ [][NextNorm]_vars

(***************************************************************************)
(* The worksheet, as gspread shows it.  A worksheet is the sequence of its *)
(* rows down to the last row that holds anything; a row is its cells of    *)
(* columns A..K.                                                           *)
(***************************************************************************)
EmptyCell == [kind |-> "empty", i |-> 0, s |-> << >>]
IntCell(n) == [kind |-> "int", i |-> n, s |-> << >>]
TextCell(str) == [kind |-> "str", i |-> 0, s |-> str]

ColA == 1
ColB == 2
ColG == 7
ColH == 8
ColI == 9
ColJ == 10
ColK == 11
BlankRow == [c \in ColA..ColK |-> EmptyCell]
IsBlankRow(r) == \A c \in ColA..ColK : r[c] = EmptyCell

\* what the API returns for a cell
Display(cell) ==
    CASE cell.kind = "empty" -> << >>
      [] cell.kind = "str" -> cell.s
      [] cell.kind = "int" -> IntStr(cell.i)

\* ws.col_values(1): column A down to its last cell that is not empty
RECURSIVE LastFilledA(_, _)
LastFilledA(sheet, k) ==
    IF k = 0 \/ sheet[k][ColA] # EmptyCell THEN k ELSE LastFilledA(sheet, k - 1)
col_values_a(sheet) == [k \in 1..LastFilledA(sheet, Len(sheet)) |-> Display(sheet[k][ColA])]

\* a value written with value_input_option="USER_ENTERED"
UserEntered(v) ==
    CASE v.kind = "int" -> IntCell(v.i)
      [] v.kind = "str" -> IF v.s = << >> THEN EmptyCell ELSE TextCell(v.s)

\* ws.append_row([date_str]): a new row under the last row that holds anything
append_row(sheet, date_str) ==
    Append(sheet, [BlankRow EXCEPT ![ColA] = UserEntered(StrV(date_str))])

\* rows that hold nothing at the end of the sheet are not part of it
RECURSIVE TrimBlankRows(_)
TrimBlankRows(sheet) ==
    IF sheet # << >> /\ IsBlankRow(sheet[Len(sheet)])
    THEN TrimBlankRows(SubSeq(sheet, 1, Len(sheet) - 1)) ELSE sheet

\* ws.update("<first><row>:<last><row>", [values]): the cells of one row, in one call
update(sheet, row, first, values) ==
    LET padded == [k \in 1..(IF row > Len(sheet) THEN row ELSE Len(sheet)) |->
                      IF k <= Len(sheet) THEN sheet[k] ELSE BlankRow] IN
    TrimBlankRows([padded EXCEPT ![row] =
        [c \in ColA..ColK |->
            IF c >= first /\ c < first + Len(values)
            THEN UserEntered(values[c - first + 1]) ELSE padded[row][c]]])

(***************************************************************************)
(* find_or_create_row_by_date                                              *)
(***************************************************************************)
\* the first index whose stripped value equals date_str, 0 when there is none
\* no cell ever matches: a mutation of the scan
FirstMatch_none(col_a, date_str) == 0

FirstMatch(col_a, date_str) ==
    IF \E k \in 1..Len(col_a) : Strip(col_a[k]) = date_str
    THEN CHOOSE k \in 1..Len(col_a) :
            /\ Strip(col_a[k]) = date_str
            /\ \A j \in 1..(k - 1) : Strip(col_a[j]) # date_str
    ELSE 0

\* always appends: a mutation of the scan
find_or_create_always_appends(sheet, date_str) ==
    [sheet |-> append_row(sheet, date_str), ret |-> Len(col_values_a(sheet)) + 1,
     appended |-> TRUE]

\* the function run start to finish with no other writer between its two requests: the
\* worksheet afterwards, the index returned, and whether a row was appended
find_or_create_row_by_date(sheet, date_str) ==
    IF FirstMatch(col_values_a(sheet), date_str) # 0
    THEN [sheet |-> sheet, ret |-> FirstMatch(col_values_a(sheet), date_str),
          appended |-> FALSE]
    ELSE [sheet |-> append_row(sheet, date_str), ret |-> Len(col_values_a(sheet)) + 1,
          appended |-> TRUE]

\* the dates of SpecRows, and the worksheets it starts from
D1 == "2024-01-15"
D2 == "2024-01-16"
Dates == {<<D1>>, <<D2>>}
ACells == {EmptyCell, TextCell(<<D1>>), TextCell(<<D2>>), TextCell(<<SP, D1>>),
           TextCell(<<"date">>)}
\* a row: its column A, and either nothing else or a number in B and a formula in H
RowKinds ==
    {r \in UNION { { [BlankRow EXCEPT ![ColA] = a],
                     [BlankRow EXCEPT ![ColA] = a, ![ColB] = IntCell(1),
                                      ![ColH] = TextCell(<<"=B+D+F">>)] } : a \in ACells } :
        ~IsBlankRow(r)}
RowsOf(sheet, date_str) == {k \in 1..Len(sheet) : Strip(Display(sheet[k][ColA])) = date_str}
OneRowPerDate(sheet) == \A d \in Dates : Cardinality(RowsOf(sheet, d)) <= 1
SheetsUpTo(kinds, n) == {sh \in SeqsUpTo(kinds, n) : OneRowPerDate(sh)}

InitRows ==
    /\ ws \in SheetsUpTo(RowKinds, MaxRows)
    /\ ws0 = ws
    /\ calls = << >>
    /\ writers = NoWriters
    /\ ExIdle /\ RsIdle /\ CoIdle /\ NmIdle /\ DrIdle

\* col_a = ws.col_values(1) and the scan of a new call: it returns the index of the
\* match, or is left about to append (pc "append", nothing returned yet)
FindOrCreateReads ==
    /\ Len(calls) < MaxCalls
    /\ \A k \in 1..Len(calls) : calls[k].pc = "done"
    /\ \E d \in Dates :
         calls' = Append(calls,
            IF FirstMatch(col_values_a(ws), d) # 0
            THEN [date |-> d, pc |-> "done", col_a |-> col_values_a(ws),
                  ret |-> FirstMatch(col_values_a(ws), d), appended |-> FALSE, before |-> ws]
            ELSE [date |-> d, pc |-> "append", col_a |-> col_values_a(ws),
                  ret |-> 0, appended |-> FALSE, before |-> ws])
    /\ UNCHANGED <<ws, ws0, writers, exVars, rsVars, coVars, nmVars, drVars>>

\* ws.append_row([date_str], ...); return len(col_a) + 1, of the call that found no match
FindOrCreateAppends ==
    /\ \E k \in {Len(calls)} :
         /\ k > 0
         /\ calls[k].pc = "append"
         /\ ws' = append_row(ws, calls[k].date)
         /\ calls' = [calls EXCEPT ![k] =
               [@ EXCEPT !.pc = "done", !.ret = Len(calls[k].col_a) + 1, !.appended = TRUE]]
    /\ UNCHANGED <<ws0, writers, exVars, rsVars, coVars, nmVars, drVars>>

NextRows == FindOrCreateReads \/ FindOrCreateAppends
SpecRows == InitRows /\ [][NextRows]_vars

(***************************************************************************)
(* find_or_create_row_by_date run by driver instances on one worksheet:    *)
(* ws.col_values(1) and ws.append_row are two requests, with no lock       *)
(***************************************************************************)
\* an instance about to call find_or_create_row_by_date(ws, date_str)
WriterStart(date_str) == [WriterOff EXCEPT !.pc = "start", !.date = date_str]

\* one instance runs, or two do
InitRace ==
    /\ ws \in SheetsUpTo(RowKinds, MaxRows)
    /\ ws0 = ws
    /\ calls = << >>
    /\ writers \in {w \in [Instances -> {WriterOff} \cup {WriterStart(d) : d \in Dates}] :
                      w["first"].pc = "start"}
    /\ ExIdle /\ RsIdle /\ CoIdle /\ NmIdle /\ DrIdle

\* col_a = ws.col_values(1), and the scan of it: the index of the match is returned, or
\* the instance goes on to append.  seen: the rows of the worksheet at the read
AfterRead(w, sheet) ==
    IF FirstMatch(col_values_a(sheet), w.date) # 0
    THEN [w EXCEPT !.pc = "done", !.col_a = col_values_a(sheet), !.seen = Len(sheet),
                   !.ret = FirstMatch(col_values_a(sheet), w.date)]
    ELSE [w EXCEPT !.pc = "append", !.col_a = col_values_a(sheet), !.seen = Len(sheet)]
ReadColumnA(i) ==
    /\ writers[i].pc = "start"
    /\ writers' = [writers EXCEPT ![i] = AfterRead(writers[i], ws)]
    /\ UNCHANGED <<ws, ws0, calls, exVars, rsVars, coVars, nmVars, drVars>>

\* ws.append_row([date_str], ...); return len(col_a) + 1.  row: where the row landed
AfterAppend(w, sheet) ==
    [w EXCEPT !.pc = "done", !.ret = Len(w.col_a) + 1, !.row = Len(sheet) + 1]
AppendRow(i) ==
    /\ writers[i].pc = "append"
    /\ ws' = append_row(ws, writers[i].date)
    /\ writers' = [writers EXCEPT ![i] = AfterAppend(writers[i], ws)]
    /\ UNCHANGED <<ws0, calls, exVars, rsVars, coVars, nmVars, drVars>>

NextRace == \E i \in Instances : ReadColumnA(i) \/ AppendRow(i)
SpecRace == InitRace /\ [][NextRace]_vars

(***************************************************************************)
(* write_metrics_row, write_meta_row                                       *)
(***************************************************************************)
\* an Optional[DailyMetrics]: None, or the pair (sales, orders)
NoMetrics == [some |-> FALSE, pair |-> <<0, 0>>]
Some(pair) == [some |-> TRUE, pair |-> pair]
\* m.sales if m else "" (a DailyMetrics object is always true)
FieldOrBlank(m, j) == IF m.some THEN IntV(m.pair[j]) ELSE StrV(<< >>)

\* 0 for a channel that is None: a mutation of the "" default
write_metrics_row_zero_default(sheet, row, cafe24, coupang, naver) ==
    update(sheet, row, ColB,
           <<IntV(cafe24.pair[1]), IntV(cafe24.pair[2]), IntV(coupang.pair[1]),
             IntV(coupang.pair[2]), IntV(naver.pair[1]), IntV(naver.pair[2])>>)

write_metrics_row(sheet, row, cafe24, coupang, naver) ==
    update(sheet, row, ColB,
           <<FieldOrBlank(cafe24, 1), FieldOrBlank(cafe24, 2),
             FieldOrBlank(coupang, 1), FieldOrBlank(coupang, 2),
             FieldOrBlank(naver, 1), FieldOrBlank(naver, 2)>>)

\* spend and purchases are Optional[int]: IntV(n) or NoneV
write_meta_row(sheet, row, spend, purchases) ==
    update(sheet, row, ColJ,
           <<IF spend.kind # "none" THEN spend ELSE StrV(<< >>),
             IF purchases.kind # "none" THEN purchases ELSE StrV(<< >>)>>)

(***************************************************************************)
(* main                                                                    *)
(***************************************************************************)
\* date_str: the target date (yesterday, KST)
date_str == <<D1>>

\* the payload object run_script returns, as the normalizers see it
PayloadOf(x) == IF x.kind = "dict" THEN DictV(x.val) ELSE TupleV

Kid(rc, out) == [returncode |-> rc, stdout |-> out, stderr |-> IF rc = 0 THEN << >> ELSE <<"Traceback", NL>>]
SalesOrders == <<LB, "\"sales\":5", CM, "\"orders\":1", RB>>
\* how each child of a run may end
CafeBzKids == { Kid(0, <<LOG, NL>> \o SalesOrders \o <<NL>>),
                Kid(0, <<LB, "'orders':1", RB>>),
                Kid(1, SalesOrders) }
CafeBrKids == { Kid(0, SalesOrders),
                Kid(0, <<LB, "\"sales\":0", CM, "\"orders\":1", RB>>),
                Kid(0, <<LOG, NL>>) }
CoupangKids == { Kid(0, <<LB, "\"mapped\":", LB, "\"burdenzero\":">> \o SalesOrders
                          \o <<CM, "\"brainology\":", LB, "\"orders\":1", RB, RB, RB>>),
                 Kid(0, <<LOG, SP, LB, RB>>),
                 Kid(0, <<LB, RB, CM, LB, RB>>),
                 Kid(2, << >>) }
NaverKids == { Kid(0, SalesOrders),
               Kid(0, <<LB, "\"sales\":\"6,1\"", RB>>),
               Kid(1, <<LOG>>) }
MetaKids == { Kid(0, <<LB, "\"mapped\":", LB, "\"burdenzero\":", LB, "\"spend\":\"6,1\"", CM,
                       "\"purchases\":\"3\"", RB, RB, RB>>),
              Kid(0, <<LB, "\"burdenzero\":", LB, "\"spend\":0", RB, RB>>),
              Kid(0, <<LB, RB>>),
              Kid(1, <<LB, RB>>) }

\* the rows a worksheet of a run starts with: the row of the date from an earlier run,
\* the row of another date, and a row that holds cells but no date
DriverRowKinds ==
    { [BlankRow EXCEPT ![ColA] = TextCell(<<D1>>), ![ColB] = IntCell(1),
                       ![ColH] = TextCell(<<"=B+D+F">>)],
      [BlankRow EXCEPT ![ColA] = TextCell(<<D2>>)],
      [BlankRow EXCEPT ![ColB] = IntCell(1), ![ColH] = TextCell(<<"=B+D+F">>)] }

\* the runs that a second instance of the driver accompanies.  Both instances are started
\* for the same date in the same environment, so their children print the same: the
\* children of such a run, and the metrics the normalizers make of them
SharedRun(bz, br, cp, nv, mt, g) ==
    [kids |-> [cafe_bz |-> bz, cafe_br |-> br, coupang |-> cp, naver |-> nv, meta |-> mt],
     got |-> g]
SharedRuns ==
    { SharedRun(Kid(0, <<LB, "'orders':1", RB>>), Kid(0, SalesOrders),
                Kid(0, <<LOG, SP, LB, RB>>), Kid(0, SalesOrders), Kid(0, <<LB, RB>>),
                [cafe_bz |-> << <<0, 1>> >>, cafe_br |-> << <<5, 1>> >>,
                 coupang |-> << <<0, 0>>, <<0, 0>> >>, naver |-> << <<5, 1>> >>,
                 meta |-> << <<0, 0>>, <<0, 0>> >>]),
      SharedRun(Kid(0, <<LOG, NL>> \o SalesOrders \o <<NL>>),
                Kid(0, <<LB, "\"sales\":0", CM, "\"orders\":1", RB>>),
                Kid(0, <<LB, "\"mapped\":", LB, "\"burdenzero\":">> \o SalesOrders
                         \o <<CM, "\"brainology\":", LB, "\"orders\":1", RB, RB, RB>>),
                Kid(0, SalesOrders),
                Kid(0, <<LB, "\"mapped\":", LB, "\"burdenzero\":", LB, "\"spend\":\"6,1\"",
                         CM, "\"purchases\":\"3\"", RB, RB, RB>>),
                [cafe_bz |-> << <<5, 1>> >>, cafe_br |-> << <<0, 1>> >>,
                 coupang |-> << <<5, 1>>, <<0, 1>> >>, naver |-> << <<5, 1>> >>,
                 meta |-> << <<61, 3>>, <<0, 0>> >>]) }
\* the second instance with its scrapers done, about to make its first sheet request
OtherStart(run) == [OtherOff EXCEPT !.pc = "row_bz", !.kids = run.kids, !.got = run.got]
\* what the child of a call site may print
KidsAt(site, all) == IF other.pc = "off" THEN all ELSE {other.kids[site]}

InitMain ==
    /\ pc = "cafe_bz"
    /\ cred \in BOOLEAN
    /\ other \in {OtherOff} \cup (IF cred THEN {OtherStart(run) : run \in SharedRuns} ELSE {})
    /\ kids = << >>
    /\ got = GotNothing
    /\ book \in [bz : SheetsUpTo(DriverRowKinds, MaxRows), br : SheetsUpTo(DriverRowKinds, 1)]
    /\ book0 = book
    /\ rowOf = [bz |-> 0, br |-> 0]
    /\ err = ""
    /\ log = << >>
    /\ ExIdle /\ RsIdle /\ CoIdle /\ NmIdle /\ RwIdle

\* the exception leaves main: nothing after the failing statement runs
Abort(e) == pc' = "aborted" /\ err' = e /\ got' = got

\* the call sites of run_script in main: the variable the payload goes to, and the
\* statement that follows
Sites == {"cafe_bz", "cafe_br", "coupang", "naver", "meta"}
PayloadVar(site) ==
    CASE site = "cafe_bz" -> "cafe_bz_payload" [] site = "cafe_br" -> "cafe_br_payload"
      [] site = "coupang" -> "coupang_payload" [] site = "naver" -> "naver_payload"
      [] OTHER -> "meta_payload"
\* the brainology cafe24 call is left out: a mutation of the statement order
After_skips_cafe_br(site) ==
    CASE site = "cafe_bz" -> "coupang" [] site = "cafe_br" -> "norm_cafe_bz"
      [] site = "coupang" -> "norm_coupang" [] site = "naver" -> "norm_naver"
      [] OTHER -> "norm_meta"
After(site) ==
    CASE site = "cafe_bz" -> "cafe_br" [] site = "cafe_br" -> "norm_cafe_bz"
      [] site = "coupang" -> "norm_coupang" [] site = "naver" -> "norm_naver"
      [] OTHER -> "norm_meta"

\* p = subprocess.run([sys.executable, script, *args], ...) at a call site: the child has
\* run and ended as kid
Launch(site, script, args, kid) ==
    /\ kids' = Append(kids, [site |-> site, script |-> script, args |-> args,
                             returncode |-> kid.returncode, stdout |-> kid.stdout,
                             stderr |-> kid.stderr])
    /\ pc' = "run_script"
    /\ UNCHANGED <<cred, got, book, book0, other, rowOf, err, log, exVars, rsVars, coVars, nmVars,
                   rwVars>>

\* cafe_bz_payload = run_script(cafe24_path, ["--profile", "burdenzero", ...])
RunCafe24Burdenzero ==
    /\ pc = "cafe_bz"
    /\ \E kid \in KidsAt("cafe_bz", CafeBzKids) : Launch("cafe_bz", cafe24_path, "burdenzero", kid)

\* cafe_br_payload = run_script(cafe24_path, ["--profile", "brainology", ...])
RunCafe24Brainology ==
    /\ pc = "cafe_br"
    /\ \E kid \in KidsAt("cafe_br", CafeBrKids) : Launch("cafe_br", cafe24_path, "brainology", kid)

\* coupang_payload = run_script(coupang_path, ["--date", date_str, "--json"])
RunCoupang ==
    /\ pc = "coupang"
    /\ \E kid \in KidsAt("coupang", CoupangKids) : Launch("coupang", coupang_path, "--json", kid)

\* naver_payload = run_script(naver_path, ["--date", date_str, "--json"])
RunNaver ==
    /\ pc = "naver"
    /\ \E kid \in KidsAt("naver", NaverKids) : Launch("naver", naver_path, "--json", kid)

\* meta_payload = run_script(meta_ads_path, ["--date", date_str, "--json"])
RunMetaAds ==
    /\ pc = "meta"
    /\ \E kid \in KidsAt("meta", MetaKids) : Launch("meta", meta_ads_path, "--json", kid)

\* a failed scraper is skipped with an empty payload: a mutation of the raise
ScriptReturnsOrSkips ==
    /\ pc = "run_script"
    /\ \E p \in {kids[Len(kids)]} : \E r \in {run_script(p.script, p)} :
         /\ got' = [got EXCEPT ![PayloadVar(p.site)] =
                       IF r.ok THEN PayloadOf(r.payload) ELSE DictV(EmptyDict)]
         /\ pc' = After(p.site)
    /\ UNCHANGED <<cred, kids, book, book0, other, rowOf, err, log, exVars, rsVars, coVars, nmVars,
                   rwVars>>

\* the rest of run_script once the child has exited: the payload is returned to the call
\* site, or the RuntimeError is raised and leaves main
ScriptReturns ==
    /\ pc = "run_script"
    /\ \E p \in {kids[Len(kids)]} : \E r \in {run_script(p.script, p)} :
         IF r.ok
         THEN /\ got' = [got EXCEPT ![PayloadVar(p.site)] = PayloadOf(r.payload)]
              /\ pc' = After(p.site) /\ err' = err
         ELSE Abort("RuntimeError")
    /\ UNCHANGED <<cred, kids, book, book0, other, rowOf, log, exVars, rsVars, coVars, nmVars, rwVars>>

\* x = normalizer(payload) with outcome m: the metrics are kept, or the exception ends
\* the run
Normalize(m, x, next) ==
    /\ IF m.raised # "" THEN Abort(m.raised)
       ELSE got' = [got EXCEPT ![x] = m.res] /\ pc' = next /\ err' = err
    /\ UNCHANGED <<cred, kids, book, book0, other, rowOf, log, exVars, rsVars, coVars, nmVars, rwVars>>

\* cafe_bz = metrics_from_simple(cafe_bz_payload)
NormalizeCafe24Burdenzero ==
    /\ pc = "norm_cafe_bz"
    /\ Normalize(metrics_from_simple(got.cafe_bz_payload), "cafe_bz", "norm_cafe_br")

\* cafe_br = metrics_from_simple(cafe_br_payload)
NormalizeCafe24Brainology ==
    /\ pc = "norm_cafe_br"
    /\ Normalize(metrics_from_simple(got.cafe_br_payload), "cafe_br", "coupang")

\* coupang_bz, coupang_br = metrics_from_coupang(coupang_payload)
NormalizeCoupang ==
    /\ pc = "norm_coupang"
    /\ Normalize(metrics_from_coupang(got.coupang_payload), "coupang", "naver")

\* naver_bz = metrics_from_simple(naver_payload)
NormalizeNaver ==
    /\ pc = "norm_naver"
    /\ Normalize(metrics_from_simple(got.naver_payload), "naver", "meta")

\* meta_bz_spend, ..., meta_br_purchases = metrics_from_meta_ads(meta_payload)
NormalizeMetaAds ==
    /\ pc = "norm_meta"
    /\ Normalize(metrics_from_meta_ads(got.meta_payload), "meta", "open")

\* gc = gspread_client_from_service_account(); sh = ...; ws_bz = ...; ws_br = ...
OpenSpreadsheet ==
    /\ pc = "open"
    /\ IF cred THEN pc' = "row_bz" /\ err' = err /\ got' = got ELSE Abort("RuntimeError")
    /\ UNCHANGED <<cred, kids, book, book0, other, rowOf, log, exVars, rsVars, coVars, nmVars, rwVars>>

\* find_or_create_row_by_date(ws, date_str) of main, first request: col_a =
\* ws.col_values(1) and the scan.  The call returns the match (the row is resolved and
\* main goes on to `next`), or is left at `append`.  The call's locals are those of the
\* instance "first"
ResolveReads(sh, append, next) ==
    /\ \E w \in {AfterRead(WriterStart(date_str), book[sh])} :
         /\ writers' = [writers EXCEPT !["first"] = w]
         /\ IF w.pc = "done"
            THEN /\ rowOf' = [rowOf EXCEPT ![sh] = w.ret]
                 /\ log' = Append(log, <<"find_or_create_row_by_date", sh>>)
                 /\ pc' = next
            ELSE pc' = append /\ rowOf' = rowOf /\ log' = log
    /\ UNCHANGED <<ws, ws0, calls, cred, kids, got, book, book0, other, err, exVars, rsVars, coVars,
                   nmVars>>

\* second request: ws.append_row([date_str], ...); return len(col_a) + 1
ResolveAppends(sh, next) ==
    /\ book' = [book EXCEPT ![sh] = append_row(book[sh], date_str)]
    /\ writers' = [writers EXCEPT !["first"] = AfterAppend(writers["first"], book[sh])]
    /\ rowOf' = [rowOf EXCEPT ![sh] = Len(writers["first"].col_a) + 1]
    /\ log' = Append(log, <<"find_or_create_row_by_date", sh>>)
    /\ pc' = next
    /\ UNCHANGED <<ws, ws0, calls, cred, kids, got, book0, other, err, exVars, rsVars, coVars, nmVars>>

\* row_bz = find_or_create_row_by_date(ws_bz, date_str): ws.col_values(1) and the scan
ResolveRowBurdenzero ==
    /\ pc = "row_bz"
    /\ ResolveReads("bz", "append_bz", "row_br")

\* row_bz = find_or_create_row_by_date(ws_bz, date_str): ws.append_row and the return
AppendRowBurdenzero ==
    /\ pc = "append_bz"
    /\ ResolveAppends("bz", "row_br")

\* row_br = find_or_create_row_by_date(ws_br, date_str): ws.col_values(1) and the scan
ResolveRowBrainology ==
    /\ pc = "row_br"
    /\ ResolveReads("br", "append_br", "metrics_bz")

\* row_br = find_or_create_row_by_date(ws_br, date_str): ws.append_row and the return
AppendRowBrainology ==
    /\ pc = "append_br"
    /\ ResolveAppends("br", "metrics_bz")

\* the second instance runs the same main: its sheet requests, one a step, fall anywhere
\* among the statements of this run.  OtherAfter: the statement after each of its requests
OtherAfter(at) ==
    CASE at = "row_bz" -> "row_br" [] at = "append_bz" -> "row_br"
      [] at = "row_br" -> "metrics_bz" [] at = "append_br" -> "metrics_bz"
      [] at = "metrics_bz" -> "metrics_br" [] at = "metrics_br" -> "meta_bz"
      [] at = "meta_bz" -> "meta_br" [] OTHER -> "done"
OtherSheet(at) == IF at \in {"row_bz", "append_bz", "metrics_bz", "meta_bz"} THEN "bz" ELSE "br"
OtherFrame == UNCHANGED <<pc, cred, kids, got, book0, rowOf, err, log, exVars, rsVars, coVars,
                          nmVars, rwVars>>

\* its find_or_create_row_by_date: col_a = ws.col_values(1) and the scan
OtherResolveReads ==
    /\ other.pc \in {"row_bz", "row_br"}
    /\ \E sh \in {OtherSheet(other.pc)} :
       \E w \in {AfterRead(WriterStart(date_str), book[sh])} :
         other' = [other EXCEPT !.col_a = w.col_a, !.rowOf[sh] = w.ret,
                                !.pc = IF w.pc = "done" THEN OtherAfter(other.pc)
                                       ELSE IF sh = "bz" THEN "append_bz" ELSE "append_br"]
    /\ book' = book
    /\ OtherFrame

\* its find_or_create_row_by_date: ws.append_row([date_str], ...); return len(col_a) + 1
OtherResolveAppends ==
    /\ other.pc \in {"append_bz", "append_br"}
    /\ \E sh \in {OtherSheet(other.pc)} :
         /\ book' = [book EXCEPT ![sh] = append_row(book[sh], date_str)]
         /\ other' = [other EXCEPT !.rowOf[sh] = Len(other.col_a) + 1,
                                   !.pc = OtherAfter(other.pc)]
    /\ OtherFrame

\* its write_metrics_row(ws_bz, row_bz, ...) and write_metrics_row(ws_br, row_br, ...)
OtherWritesMetrics ==
    /\ other.pc \in {"metrics_bz", "metrics_br"}
    /\ book' =
         IF other.pc = "metrics_bz"
         THEN [book EXCEPT !.bz =
                 write_metrics_row(book.bz, other.rowOf.bz, Some(other.got.cafe_bz[1]),
                                   Some(other.got.coupang[1]), Some(other.got.naver[1]))]
         ELSE [book EXCEPT !.br =
                 write_metrics_row(book.br, other.rowOf.br, Some(other.got.cafe_br[1]),
                                   Some(other.got.coupang[2]), NoMetrics)]
    /\ other' = [other EXCEPT !.pc = OtherAfter(other.pc)]
    /\ OtherFrame

\* its write_meta_row(ws_bz, row_bz, ...) and write_meta_row(ws_br, row_br, ...)
OtherWritesMeta ==
    /\ other.pc \in {"meta_bz", "meta_br"}
    /\ \E sh \in {OtherSheet(other.pc)} : \E m \in {other.got.meta[IF sh = "bz" THEN 1 ELSE 2]} :
         book' = [book EXCEPT ![sh] =
                    write_meta_row(book[sh], other.rowOf[sh], IntV(m[1]), IntV(m[2]))]
    /\ other' = [other EXCEPT !.pc = OtherAfter(other.pc)]
    /\ OtherFrame

\* a request to the spreadsheet raises (gspread APIError): the exception leaves main
SheetRequests == {"row_bz", "append_bz", "row_br", "append_br", "metrics_bz", "metrics_br",
                  "meta_bz", "meta_br"}
SheetRequestFails ==
    /\ pc \in SheetRequests
    /\ Abort("APIError")
    /\ UNCHANGED <<cred, kids, book, book0, other, rowOf, log, exVars, rsVars, coVars, nmVars, rwVars>>

\* write_metrics_row(ws_bz, row_bz, cafe24=cafe_bz, coupang=coupang_bz, naver=naver_bz)
WriteMetricsBurdenzero ==
    /\ pc = "metrics_bz"
    /\ book' = [book EXCEPT !.bz =
            write_metrics_row(book.bz, rowOf.bz, Some(got.cafe_bz[1]), Some(got.coupang[1]),
                              Some(got.naver[1]))]
    /\ log' = Append(log, <<"write_metrics_row", "bz">>)
    /\ pc' = "metrics_br"
    /\ UNCHANGED <<cred, kids, got, book0, other, rowOf, err, exVars, rsVars, coVars, nmVars, rwVars>>

\* write_metrics_row(ws_br, row_br, cafe24=cafe_br, coupang=coupang_br, naver=None)
WriteMetricsBrainology ==
    /\ pc = "metrics_br"
    /\ book' = [book EXCEPT !.br =
            write_metrics_row(book.br, rowOf.br, Some(got.cafe_br[1]), Some(got.coupang[2]),
                              NoMetrics)]
    /\ log' = Append(log, <<"write_metrics_row", "br">>)
    /\ pc' = "meta_bz"
    /\ UNCHANGED <<cred, kids, got, book0, other, rowOf, err, exVars, rsVars, coVars, nmVars, rwVars>>

\* write_meta_row(ws_bz, row_bz, spend=meta_bz_spend, purchases=meta_bz_purchases)
WriteMetaBurdenzero ==
    /\ pc = "meta_bz"
    /\ book' = [book EXCEPT !.bz =
            write_meta_row(book.bz, rowOf.bz, IntV(got.meta[1][1]), IntV(got.meta[1][2]))]
    /\ log' = Append(log, <<"write_meta_row", "bz">>)
    /\ pc' = "meta_br"
    /\ UNCHANGED <<cred, kids, got, book0, other, rowOf, err, exVars, rsVars, coVars, nmVars, rwVars>>

\* write_meta_row(ws_br, row_br, spend=meta_br_spend, purchases=meta_br_purchases)
WriteMetaBrainology ==
    /\ pc = "meta_br"
    /\ book' = [book EXCEPT !.br =
            write_meta_row(book.br, rowOf.br, IntV(got.meta[2][1]), IntV(got.meta[2][2]))]
    /\ log' = Append(log, <<"write_meta_row", "br">>)
    /\ pc' = "done"
    /\ UNCHANGED <<cred, kids, got, book0, other, rowOf, err, exVars, rsVars, coVars, nmVars, rwVars>>

NextMain ==
    \/ RunCafe24Burdenzero \/ RunCafe24Brainology \/ ScriptReturns
    \/ NormalizeCafe24Burdenzero \/ NormalizeCafe24Brainology
    \/ RunCoupang \/ NormalizeCoupang \/ RunNaver \/ NormalizeNaver
    \/ RunMetaAds \/ NormalizeMetaAds \/ OpenSpreadsheet
    \/ ResolveRowBurdenzero \/ AppendRowBurdenzero
    \/ ResolveRowBrainology \/ AppendRowBrainology
    \/ SheetRequestFails
    \/ OtherResolveReads \/ OtherResolveAppends \/ OtherWritesMetrics \/ OtherWritesMeta
    \/ WriteMetricsBurdenzero \/ WriteMetricsBrainology
    \/ WriteMetaBurdenzero \/ WriteMetaBrainology
SpecMain == InitMain /\ [][NextMain]_vars

(***************************************************************************)
(* Properties: object extraction (SpecExtract)                             *)
(***************************************************************************)
\* the objects a line carries: every piece  {...}  of it that reads as a dict
LineObjects(ln) ==
    {ParseEither(SubSeq(ln, i, j)).val :
        <<i, j>> \in {ij \in (1..Len(ln)) \X (1..Len(ln)) :
                        /\ ij[1] < ij[2]
                        /\ ln[ij[1]] = LB /\ ln[ij[2]] = RB
                        /\ ParseEither(SubSeq(ln, ij[1], ij[2])).ok
                        /\ ParseEither(SubSeq(ln, ij[1], ij[2])).kind = "dict"}}
ObjectLines(lines) == {k \in 1..Len(lines) : LineObjects(lines[k]) # {}}
LastOf(S) == CHOOSE k \in S : \A j \in S : j <= k

\* C1: the object returned is read from the last line that contains a {...} object,
\* never from an earlier line when a later line contains one; and when the final
\* non-blank line is a single-line JSON object the result is exactly that object.
C1_LastObjectLineWins ==
    obj # NotRun =>
      LET lines == StrippedLines(text) IN
      /\ obj.ok => obj.line = LastOf(ObjectLines(lines))
      /\ (lines # << >> /\ json_loads(lines[Len(lines)]).ok) =>
           /\ obj.ok /\ obj.kind = "dict"
           /\ obj.val = json_loads(lines[Len(lines)]).val

(***************************************************************************)
(* Properties: run_script (SpecRun)                                        *)
(***************************************************************************)
\* piece occurs in whole, unbroken
Carries(whole, piece) ==
    \E k \in 0..(Len(whole) - Len(piece)) :
        \A j \in 1..Len(piece) : whole[k + j] = piece[j]

\* C9: a child that exits non-zero makes run_script fail with an error that carries the
\* script path and the captured stdout and stderr verbatim, with no object extraction
\* and no second launch; only on exit code 0 is stdout given to _extract_last_object.
C9_NonZeroExitFailsWithoutExtraction ==
    ran # RanIdle =>
      /\ ran.launches = 1
      /\ proc.returncode # 0 =>
           /\ ~ran.ok /\ ~ran.extracted /\ ran.payload = NotRun
           /\ Carries(ran.msg, <<proc.script>>)
           /\ Carries(ran.msg, proc.stdout)
           /\ Carries(ran.msg, proc.stderr)
      /\ ran.extracted <=> proc.returncode = 0
      /\ proc.returncode = 0 => ran.payload.err # "notrun"

\* a failed child whose stdout holds an object that extraction would have returned
C9_Witness ==
    /\ ran # RanIdle
    /\ proc.returncode # 0
    /\ proc.stderr # << >>
    /\ extract_last_object(proc.stdout).ok
    /\ ~ran.ok

(***************************************************************************)
(* Properties: _as_int (SpecCoerce)                                        *)
(***************************************************************************)

\* str(v)
StrOf(v) ==
    CASE v.kind = "str" -> v.s
      [] v.kind = "int" -> IntStr(v.i)
      [] v.kind = "bool" -> IF v.i = 1 THEN <<"T", "r", "u", "e">> ELSE <<"F", "a", "l", "s", "e">>
      [] v.kind = "float" ->
           (IF v.i < 0 THEN <<"-">> ELSE << >>)
           \o NatStr(Abs(v.i) \div 10) \o <<".">> \o NatStr(Abs(v.i) % 10)
      [] v.kind = "none" -> <<"N", "o", "n", "e">>

KeepDigitsAndMinus(str) == SelectSeq(str, LAMBDA c : c = "-" \/ IsDigit(c))

\* the integer the text converts to once only digits and minus signs are kept, else 0
StrippedValue(str) ==
    LET kept == KeepDigitsAndMinus(str) IN
    IF kept # << >> /\ kept[Len(kept)] # "-"
       /\ \A k \in 2..Len(kept) : kept[k] # "-"
    THEN (IF kept[1] = "-" THEN 0 - DigitsVal(Tail(kept)) ELSE DigitsVal(kept))
    ELSE 0

\* C10 (as claimed): for every input value _as_int returns the integer obtained by
\* removing every character that is not a digit or a minus sign and converting what
\* remains, and 0 when the input is None, empty or leaves nothing convertible.
C10_StripThenConvert ==
    coerced.done =>
      coerced.out = (IF arg.kind = "none" THEN 0 ELSE StrippedValue(StrOf(arg)))

\* the integer n with the sign of t and 10*|n| <= |t| < 10*(|n| + 1)
WholePart(t) ==
    CHOOSE n \in (0 - Abs(t))..Abs(t) :
        /\ 10 * Abs(n) <= Abs(t) /\ Abs(t) < 10 * (Abs(n) + 1)
        /\ (n # 0 => (n < 0 <=> t < 0))

\* C10 (amended): _as_int never raises; None gives 0; a number is converted by int()
\* (an int is itself, True is 1, False is 0, a float is truncated toward zero); any
\* string gives the integer obtained by removing every character that is not a digit or
\* a minus sign and converting what remains, 0 when that is empty or not convertible.
C10_CoercionByType ==
    coerced.done =>
      coerced.out =
        CASE arg.kind = "none" -> 0
          [] arg.kind \in {"int", "bool"} -> arg.i
          [] arg.kind = "float" -> WholePart(arg.i)
          [] arg.kind = "str" -> StrippedValue(arg.s)

\* "1,0 " is coerced to 10
C10_Witness ==
    /\ coerced.done
    /\ arg = StrV(<<"1", ",", "0", " ">>)
    /\ coerced.out = 10

(***************************************************************************)
(* Properties: the normalizers (SpecNorm)                                  *)
(***************************************************************************)
\* C4: normalization never raises: metrics_from_simple, metrics_from_coupang and
\* metrics_from_meta_ads each return a result for every payload.
C4_NormalizationNeverRaises ==
    metrics.fn # "none" => metrics.raised = ""

ReturnedValues == {metrics.res[k][j] : k \in 1..Len(metrics.res), j \in 1..2}

\* C7 (as claimed): every value a normalizer returns is an integer >= 0.
C7_NonNegativeIntegers ==
    (metrics.fn # "none" /\ metrics.raised = "") =>
      \A x \in ReturnedValues : x \in Int /\ x >= 0

\* whether a payload holds a negative number or a string with a minus sign
RECURSIVE HoldsMinus(_)
HoldsMinus(v) ==
    CASE v.kind \in {"int", "float"} -> v.i < 0
      [] v.kind = "str" -> Has(v.s, "-")
      [] v.kind = "dict" -> \E k \in DOMAIN v.d : HoldsMinus(v.d[k])
      [] OTHER -> FALSE

\* C7 (amended): every value a normalizer returns is an integer; it is >= 0 unless the
\* payload holds a negative number or a string with a minus sign, which is kept.
C7_IntegersNegativeOnlyFromMinus ==
    (metrics.fn # "none" /\ metrics.raised = "") =>
      \A x \in ReturnedValues : x \in Int /\ (x < 0 => HoldsMinus(payload))

\* {"sales": "-4", "orders": 7} is normalized to (-4, 7)
C7_Witness ==
    /\ metrics.fn = "simple" /\ metrics.raised = ""
    /\ payload = DictV(MkDict(<< <<"sales", StrV(<<"-", "4">>)>>, <<"orders", IntV(7)>> >>))
    /\ metrics.res = << <<0 - 4, 7>> >>

\* the first key of keys that passes the test on d, 0 when none does
FirstKey(d, keys, Test(_)) ==
    IF \E k \in 1..Len(keys) : keys[k] \in DOMAIN d /\ Test(d[keys[k]])
    THEN CHOOSE k \in 1..Len(keys) :
            /\ keys[k] \in DOMAIN d /\ Test(d[keys[k]])
            /\ \A j \in 1..(k - 1) : ~(keys[j] \in DOMAIN d /\ Test(d[keys[j]]))
    ELSE 0
Present(v) == TRUE
NotNone(v) == v.kind # "none"
IsDict(v) == v.kind = "dict"

\* the pair read from a brand value: per field the coerced value of the first alias
\* that passes the test, 0 if none does; (0, 0) when the brand value is not an object
FieldOf(d, keys, Test(_)) ==
    IF FirstKey(d, keys, Test) = 0 THEN 0 ELSE as_int(d[keys[FirstKey(d, keys, Test)]])
PairOf(brand, Test(_)) ==
    IF brand.kind = "dict"
    THEN <<FieldOf(brand.d, SpendKeys, Test), FieldOf(brand.d, PurchaseKeys, Test)>>
    ELSE <<0, 0>>

\* C8 as claimed: present keys decide
ClaimedContainer(p) ==
    IF FirstKey(p.d, ContainerKeys, Present) = 0 THEN p
    ELSE p.d[ContainerKeys[FirstKey(p.d, ContainerKeys, Present)]]
ClaimedBrand(root, canonical, native) ==
    IF root.kind # "dict" THEN NoneV
    ELSE IF canonical \in DOMAIN root.d THEN root.d[canonical]
    ELSE DictGet(root.d, native)

\* C8 (as claimed): the container is the first of mapped, brands, by_brand, data that is
\* present (else the payload); each brand is read under its canonical key or, when that
\* key is absent, under its native name; each field is the coerced value of the first
\* alias that is present, 0 if none is.
C8_FirstPresentKeys ==
    (metrics.fn = "meta_ads" /\ payload.kind = "dict") =>
      metrics.res =
        <<PairOf(ClaimedBrand(ClaimedContainer(payload), "burdenzero", NATIVE_BURDENZERO), Present),
          PairOf(ClaimedBrand(ClaimedContainer(payload), "brainology", NATIVE_BRAINOLOGY), Present)>>

\* C8 as amended: values decide
AmendedContainer(p) ==
    IF FirstKey(p.d, ContainerKeys, IsDict) = 0 THEN p
    ELSE p.d[ContainerKeys[FirstKey(p.d, ContainerKeys, IsDict)]]
AmendedBrand(root, canonical, native) ==
    IF root.kind # "dict" THEN NoneV
    ELSE IF canonical \in DOMAIN root.d /\ root.d[canonical].kind # "none" THEN root.d[canonical]
    ELSE DictGet(root.d, native)

\* C8 (amended): the container is the first of mapped, brands, by_brand, data whose value
\* is an object (else the payload); each brand is read under its canonical key or, when
\* that key is absent or null, under its native name; each field is the coerced value of
\* the first alias that is present with a non-null value, 0 if none is; and the payload
\* {"mapped": {"burdenzero": {"spend": "12,000", "purchases": "3"}}} gives (12000, 3).
C8_FirstUsableKeys ==
    (metrics.fn = "meta_ads" /\ payload.kind = "dict") =>
      /\ metrics.res =
           <<PairOf(AmendedBrand(AmendedContainer(payload), "burdenzero", NATIVE_BURDENZERO), NotNone),
             PairOf(AmendedBrand(AmendedContainer(payload), "brainology", NATIVE_BRAINOLOGY), NotNone)>>
      /\ payload = ExampleAdPayload => metrics.res[1] = <<12000, 3>>

\* a null "spend" passed over for "cost", under a container found after a null "mapped"
C8_Witness ==
    /\ metrics.fn = "meta_ads"
    /\ DictGet(payload.d, "mapped") = NoneV /\ "mapped" \in DOMAIN payload.d
    /\ "brands" \in DOMAIN payload.d
    /\ LET bz == DictGet(payload.d["brands"].d, "burdenzero") IN
         /\ bz.kind = "dict"
         /\ "spend" \in DOMAIN bz.d /\ bz.d["spend"] = NoneV
         /\ "cost" \in DOMAIN bz.d /\ bz.d["cost"] = Str61
    /\ metrics.res[1][1] = 61

(***************************************************************************)
(* Properties: row resolution (SpecRows)                                   *)
(***************************************************************************)
\* the worksheet after the k-th call
SheetAfter(k) == IF k = Len(calls) THEN ws ELSE calls[k + 1].before

\* C2: from a worksheet with at most one row per date, after any sequence of
\* find_or_create_row_by_date calls the worksheet still has at most one row per date, and
\* of two successive calls with the same date the second returns the same row index as
\* the first and appends no row.
C2_OneRowPerDateIdempotent ==
    /\ OneRowPerDate(ws)
    /\ \A k \in 2..Len(calls) :
         (calls[k].pc = "done" /\ calls[k].date = calls[k - 1].date) =>
           calls[k].ret = calls[k - 1].ret /\ ~calls[k].appended

\* C6: a call that finds the date in no cell of column A appends exactly one row, holding
\* only the date in column A, and returns the index of that row, which is the
\* worksheet's previous row count + 1.
C6_ReturnsAppendedRow ==
    \A k \in 1..Len(calls) :
      calls[k].appended =>
        /\ Len(SheetAfter(k)) = Len(calls[k].before) + 1
        /\ SubSeq(SheetAfter(k), 1, Len(calls[k].before)) = calls[k].before
        /\ SheetAfter(k)[Len(SheetAfter(k))] = [BlankRow EXCEPT ![ColA] = TextCell(calls[k].date)]
        /\ calls[k].ret = Len(calls[k].before) + 1
        /\ SheetAfter(k)[calls[k].ret][ColA] = TextCell(calls[k].date)

(***************************************************************************)
(* Properties: the driver run (SpecMain)                                   *)
(***************************************************************************)
\* a scraper invocation that failed: non-zero exit, or no extractable object
ScraperFailed(kid) == kid.returncode # 0 \/ ~extract_last_object(kid.stdout).ok

\* C3: once a scraper invocation has failed it is the last one invoked, the run ends with
\* the propagated RuntimeError, and no row is resolved or appended and no cell written in
\* either worksheet.
C3_ScraperFailureAbortsRun ==
    \A k \in 1..Len(kids) :
      ScraperFailed(kids[k]) =>
        /\ k = Len(kids)
        /\ pc \in {"run_script", "aborted"}
        /\ pc = "aborted" => err = "RuntimeError"
        /\ book = book0 /\ rowOf = [bz |-> 0, br |-> 0] /\ log = << >>

\* the brainology scraper printed no object after the burdenzero one succeeded
C3_Witness ==
    /\ pc = "aborted" /\ err = "RuntimeError" /\ Len(kids) = 2
    /\ kids[2].returncode = 0 /\ ~extract_last_object(kids[2].stdout).ok
    /\ ~ScraperFailed(kids[1])

\* the value under a path of keys of a payload, Absent when a key is missing
RECURSIVE Lookup(_, _)
Lookup(v, path) ==
    IF path = << >> THEN v
    ELSE IF v.kind = "dict" /\ Head(path) \in DOMAIN v.d THEN Lookup(v.d[Head(path)], Tail(path))
    ELSE Absent

SheetNames == {"bz", "br"}
BrandOf(sh) == IF sh = "bz" THEN "burdenzero" ELSE "brainology"
NativeOf(sh) == IF sh = "bz" THEN NATIVE_BURDENZERO ELSE NATIVE_BRAINOLOGY
Range(f) == {f[k] : k \in DOMAIN f}
\* the metric columns: B..G and J..K
MetricCols == (ColB..ColG) \cup {ColJ, ColK}
FieldName(c) == IF c \in {ColB, ColB + 2, ColB + 4} THEN "sales" ELSE "orders"

\* where the ad payload may carry a brand's field: under a container or at the top,
\* under the canonical or the native name, under any alias
AdPaths(sh, aliases) ==
    {<<b, a>> : b \in {BrandOf(sh), NativeOf(sh)}, a \in Range(aliases)}
    \cup {<<ct, b, a>> : ct \in Range(ContainerKeys), b \in {BrandOf(sh), NativeOf(sh)},
                         a \in Range(aliases)}

\* what the scrapers reported for the metric of column c of a worksheet
Reported(sh, c) ==
    (CASE c \in {ColB, ColB + 1} ->
            {Lookup(IF sh = "bz" THEN got.cafe_bz_payload ELSE got.cafe_br_payload,
                    <<FieldName(c)>>)}
       [] c \in {ColB + 2, ColB + 3} ->
            {Lookup(got.coupang_payload, <<"mapped", BrandOf(sh), FieldName(c)>>)}
       [] c \in {ColB + 4, ColG} ->
            IF sh = "bz" THEN {Lookup(got.naver_payload, <<FieldName(c)>>)} ELSE {}
       [] OTHER ->
            {Lookup(got.meta_payload, path) :
               path \in AdPaths(sh, IF c = ColJ THEN SpendKeys ELSE PurchaseKeys)})
    \ {Absent}

\* the cell of column c in the row the run resolved for the date
TargetCell(sh, c) == book[sh][rowOf[sh]][c]
IsZero(v) == v \in {IntV(0), FloatV(0), StrV(<<"0">>)}
\* naver is collected for burdenzero only
NotCollected(sh, c) == sh = "br" /\ c \in {ColB + 4, ColG}

\* C5 (as claimed): after a driver run a metric missing from its channel's payload is an
\* empty cell, and a cell of B..G or J..K holds 0 only if the scraper reported 0 for it.
C5_MissingWrittenEmpty ==
    pc = "done" =>
      \A sh \in SheetNames : \A c \in MetricCols :
        /\ Reported(sh, c) = {} => TargetCell(sh, c) = EmptyCell
        /\ TargetCell(sh, c) = IntCell(0) => \E v \in Reported(sh, c) : IsZero(v)

\* C5 (amended): after a driver run the only empty metric cells are F..G of the
\* brainology row, whose channel (naver) is not collected; every other cell of B..G and
\* J..K holds an integer, and a metric missing from its channel's payload is written as
\* 0, the same cell a reported 0 gives.
C5_MissingWrittenAsZero ==
    pc = "done" =>
      \A sh \in SheetNames : \A c \in MetricCols :
        /\ NotCollected(sh, c) => TargetCell(sh, c) = EmptyCell
        /\ ~NotCollected(sh, c) => TargetCell(sh, c).kind = "int"
        /\ (~NotCollected(sh, c) /\ Reported(sh, c) = {}) => TargetCell(sh, c) = IntCell(0)

\* a run that ended with the cafe24 sales of burdenzero missing from the payload and
\* written as 0, and the naver cells of brainology empty
C5_Witness ==
    /\ pc = "done"
    /\ Reported("bz", ColB) = {} /\ TargetCell("bz", ColB) = IntCell(0)
    /\ Reported("br", ColJ) = {} /\ TargetCell("br", ColJ) = IntCell(0)
    /\ TargetCell("br", ColG) = EmptyCell

\* the order of the run_script call sites and of the sheet calls in main
ScraperOrder == <<"cafe_bz", "cafe_br", "coupang", "naver", "meta">>
SheetOrder ==
    << <<"find_or_create_row_by_date", "bz">>, <<"find_or_create_row_by_date", "br">>,
       <<"write_metrics_row", "bz">>, <<"write_metrics_row", "br">>,
       <<"write_meta_row", "bz">>, <<"write_meta_row", "br">> >>
\* the statements of main from the opening of the spreadsheet on
SheetSteps == {"row_bz", "append_bz", "row_br", "append_br", "metrics_bz", "metrics_br",
               "meta_bz", "meta_br", "done"}

\* C11: the children of a run are those of cafe24(burdenzero), cafe24(brainology),
\* coupang, naver, meta_ads in this order, each started only after the one before it
\* has exited and given its payload (so at most one is alive at a time); no sheet
\* operation happens before all five have completed; and the sheet calls are, in order,
\* row resolution for both worksheets, the B-G writes, then the J-K writes, so that per
\* worksheet the row is resolved before its B-G write, which precedes its J-K write.
C11_FixedStepOrder ==
    /\ Len(kids) <= Len(ScraperOrder)
    /\ \A k \in 1..Len(kids) : kids[k].site = ScraperOrder[k]
    /\ \A k \in 1..Len(kids) :
         ScraperFailed(kids[k]) =>
           k = Len(kids) /\ log = << >> /\ book = book0 /\ pc \notin SheetSteps
    /\ Len(log) <= Len(SheetOrder)
    /\ \A k \in 1..Len(log) : log[k] = SheetOrder[k]
    /\ (log # << >> \/ pc \in SheetSteps \/ (other.pc = "off" /\ book # book0)) =>
         Len(kids) = Len(ScraperOrder)
    /\ \A sh \in SheetNames :
         \A i, j \in 1..Len(log) :
           (log[i][2] = sh /\ log[j][2] = sh /\ i < j) =>
             \/ log[i][1] = "find_or_create_row_by_date"
             \/ (log[i][1] = "write_metrics_row" /\ log[j][1] = "write_meta_row")

\* a complete run: five children, then the six sheet calls
C11_Witness ==
    /\ pc = "done" /\ Len(kids) = 5 /\ Len(log) = 6
    /\ kids[5].site = "meta" /\ log[6] = <<"write_meta_row", "br">>

(***************************************************************************)
(* Properties: concurrent row resolution (SpecRace)                        *)
(***************************************************************************)
\* instance i read column A before instance j appended its row
ReadBeforeAppendOf(i, j) == writers[j].row # 0 /\ writers[i].seen < writers[j].row

\* C12: a worksheet ends with two rows for a date only when two driver instances
\* resolved that date and interleaved (each read column A before the other appended),
\* and then one instance's returned index, the column-A length it read + 1, is not the
\* row it appended; while a single instance runs, or the two do not interleave, the
\* worksheet keeps at most one row per date.
C12_DuplicateOnlyByInterleaving ==
    \A d \in Dates :
      Cardinality(RowsOf(ws, d)) > 1 =>
        /\ \A i \in Instances : writers[i].pc = "done" /\ writers[i].date = d
                                /\ writers[i].row # 0
        /\ ReadBeforeAppendOf("first", "second") /\ ReadBeforeAppendOf("second", "first")
        /\ \E i \in Instances :
             /\ writers[i].ret = Len(writers[i].col_a) + 1
             /\ writers[i].ret # writers[i].row

\* two instances, a worksheet whose column A is filled in every row: both appended a
\* row for the date, the first got its own row back and the second did not
C12_Witness ==
    /\ \A k \in 1..Len(ws0) : ws0[k][ColA] # EmptyCell
    /\ Cardinality(RowsOf(ws, <<D1>>)) = 2
    /\ writers["first"].pc = "done" /\ writers["second"].pc = "done"
    /\ writers["first"].ret = writers["first"].row
    /\ writers["second"].ret = writers["first"].row
    /\ writers["second"].row = writers["first"].row + 1

(***************************************************************************)
(* Properties: the frame of the sheet writes (SpecMain)                    *)
(***************************************************************************)
\* whether a sheet call has been made on a worksheet
Called(op, sh) == \E k \in 1..Len(log) : log[k] = <<op, sh>>
\* the cell of a worksheet before the run, empty where the worksheet had no such row
PriorCell(sh, k, c) == IF k <= Len(book0[sh]) THEN book0[sh][k][c] ELSE EmptyCell
\* the rows a worksheet holds for the target date
TargetRows(sh) == RowsOf(book[sh], date_str)

\* C13: through a driver run each worksheet differs from its state before the run only
\* in the row of the target date: every other row is as it was, and in that row column A
\* holds the date, H and I are as they were, B..G change only by write_metrics_row and
\* J..K only by write_meta_row.  The run is alone on the spreadsheet (no second instance).
C13_OnlyTargetRowChanges ==
    other.pc = "off" =>
    \A sh \in SheetNames :
      /\ Len(book[sh]) >= Len(book0[sh])
      /\ \A k \in 1..Len(book[sh]) :
           /\ k \notin TargetRows(sh) => k <= Len(book0[sh]) /\ book[sh][k] = book0[sh][k]
           /\ k \in TargetRows(sh) =>
                /\ \A c \in {ColH, ColI} : book[sh][k][c] = PriorCell(sh, k, c)
                /\ k <= Len(book0[sh]) => book[sh][k][ColA] = book0[sh][k][ColA]
                /\ ~Called("write_metrics_row", sh) =>
                     \A c \in ColB..ColG : book[sh][k][c] = PriorCell(sh, k, c)
                /\ ~Called("write_meta_row", sh) =>
                     \A c \in {ColJ, ColK} : book[sh][k][c] = PriorCell(sh, k, c)

\* a completed call of the single writer is the function run start to finish on the sheet
\* it began with: its two requests compose to find_or_create_row_by_date
CompletedCallIsSequential ==
    \A k \in 1..Len(calls) :
      calls[k].pc = "done" =>
        \E r \in {find_or_create_row_by_date(calls[k].before, calls[k].date)} :
          /\ r.ret = calls[k].ret
          /\ r.appended = calls[k].appended
          /\ r.sheet = SheetAfter(k)

\* the requests of the second instance made so far
OtherWrote(op, sh) ==
    other.pc \in (CASE op = "write_metrics_row" /\ sh = "bz" ->
                         {"metrics_br", "meta_bz", "meta_br", "done"}
                    [] op = "write_metrics_row" /\ sh = "br" -> {"meta_bz", "meta_br", "done"}
                    [] op = "write_meta_row" /\ sh = "bz" -> {"meta_br", "done"}
                    [] OTHER -> {"done"})

\* the frame that does hold, about the rows the resolver returned to this run and to the
\* second instance: every other row is as it was or is an appended date row, and in a
\* returned row only B..G and J..K change, each by its own write
WritesTouchOnlyResolvedRow ==
    \A sh \in SheetNames :
      \A k \in 1..Len(book[sh]) :
        /\ (k \notin {rowOf[sh], other.rowOf[sh]} /\ k <= Len(book0[sh])) =>
             book[sh][k] = book0[sh][k]
        /\ (k \notin {rowOf[sh], other.rowOf[sh]} /\ k > Len(book0[sh])) =>
             book[sh][k] = [BlankRow EXCEPT ![ColA] = TextCell(date_str)]
        /\ k \in {rowOf[sh], other.rowOf[sh]} =>
             /\ \A c \in {ColH, ColI} : book[sh][k][c] = PriorCell(sh, k, c)
             /\ (~Called("write_metrics_row", sh) /\ ~OtherWrote("write_metrics_row", sh)) =>
                  \A c \in ColB..ColG : book[sh][k][c] = PriorCell(sh, k, c)
             /\ (~Called("write_meta_row", sh) /\ ~OtherWrote("write_meta_row", sh)) =>
                  \A c \in {ColJ, ColK} : book[sh][k][c] = PriorCell(sh, k, c)

\* the metrics written down for a shared run are those this run normalizes from the same
\* children
SharedRunAgrees ==
    other.pc # "off" =>
      \A x \in {"cafe_bz", "cafe_br", "coupang", "naver", "meta"} :
        got[x] # << >> => got[x] = other.got[x]

\* the second instance appended its row after this run appended its own: two rows of the
\* date, this run's first, the worksheet growing after this run has left the resolver
OtherAppendsAfterOurs ==
    /\ book0.bz = << >> /\ Len(book.bz) = 2 /\ RowsOf(book.bz, date_str) = {1, 2}
    /\ pc = "row_br" /\ rowOf.bz = 1 /\ other.rowOf.bz = 1

\* both instances ran to the end
BothDone ==
    /\ pc = "done" /\ other.pc = "done"

====
